---- MODULE Spec2Model ----
(***************************************************************************)
(* A model of the weather mini app, src/src/App.tsx: one React component   *)
(* holding the search box, the suggestion list, the favorites and the      *)
(* weather panel.  Every event handler, timer callback, effect and promise *)
(* continuation of the component is one action.                            *)
(*                                                                         *)
(* Texts (the query, city names, countries) are sequences of one-character *)
(* strings.  A JavaScript null is the record Null, except for the refs,    *)
(* where it is 0 (controller and timer ids are positive), and for error,   *)
(* where it is the string ErrNull.                                         *)
(***************************************************************************)
EXTENDS Integers, Sequences, FiniteSets, TLC

VARIABLES
    phase,            \* "init" (constructed, effects not yet run), "mounted", "unmounted"
    storage,          \* localStorage, by key: [favorites |-> text, lastCity |-> text]
    query,            \* useState('')
    suggestions,      \* useState<City[]>([])
    selectedCity,     \* useState<City | null>(null)
    favorites,        \* useState<City[]>([])
    weather,          \* useState<WeatherData | null>(null)
    loading,          \* useState(false)
    loadingSuggest,   \* useState(false)
    error,            \* useState<string | null>(null)
    suggestAbortRef,  \* id of the controller in suggestAbortRef.current, 0 for null
    weatherAbortRef,  \* id of the controller in weatherAbortRef.current, 0 for null
    debounceRef,      \* timer id in debounceRef.current, 0 for null
    timeouts,         \* the platform's pending timeouts: [id, v, elapsed]
    inflight,         \* the requests whose promise has not yet been handled
    env,              \* the inputs the environment may supply (fixed in a behaviour)
    typed,            \* history: the last text entered, the time since then, the
                      \* requests it has led to, whether it came within the delay
    lastOp            \* history: the step that led to this state

vars == <<phase, storage, query, suggestions, selectedCity, favorites, weather,
          loading, loadingSuggest, error, suggestAbortRef, weatherAbortRef,
          debounceRef, timeouts, inflight, env, typed, lastOp>>

----------------------------------------------------------------------------
(* Bounds of the model *)

\* the longest hourly series an upstream response carries
MaxUpstream == 25
\* the time one Tick step lets pass
TickStep == 150
\* the most requests in flight at once
MaxInFlight == 3
\* the most timeouts pending at once
MaxTimers == 2
\* the number of filler cities a stored favorites list is built from
MaxFill == 21

(* Program constants *)

DEBOUNCE_MS == 300
FAV_CAP == 20
HOURS == 24
SEARCH_FAILED == "search failed, try again later"
WEATHER_FAILED == "weather fetch failed, try again later"

Null == [null |-> TRUE]
ErrNull == "null"
\* the value of a property that is undefined, as a text no input can be
Undefined == <<"undefined">>

----------------------------------------------------------------------------
(* Sequences *)

Range(s) == {s[i] : i \in 1..Len(s)}

Min(a, b) == IF a <= b THEN a ELSE b

\* Array.prototype.slice(0, end)
Slice(s, end) == SubSeq(s, 1, Min(end, Len(s)))

\* String.prototype.trim, on a sequence of characters
WhiteSpace == {" "}

RECURSIVE TrimStart(_)
TrimStart(s) ==
    IF s # <<>> /\ Head(s) \in WhiteSpace THEN TrimStart(Tail(s)) ELSE s

RECURSIVE TrimEnd(_)
TrimEnd(s) ==
    IF s # <<>> /\ s[Len(s)] \in WhiteSpace THEN TrimEnd(SubSeq(s, 1, Len(s) - 1)) ELSE s

Trim(s) == TrimEnd(TrimStart(s))

----------------------------------------------------------------------------
(* Cities *)

\* reading c.country: undefined when the object has no such property
Country(c) == IF "country" \in DOMAIN c THEN c.country ELSE Undefined

\* a string in a condition: undefined and '' are falsy
Truthy(s) == s # Undefined /\ s # <<>>

\* the (name, latitude, longitude) comparison of hasFavorited and toggleFavorite
SameCity(c, d) ==
    /\ c.latitude = d.latitude
    /\ c.longitude = d.longitude
    /\ c.name = d.name

CityA  == [name |-> <<"P">>, country |-> <<"F">>, latitude |-> 1, longitude |-> 1]
\* the same triple as CityA, from a result without a country
CityA2 == [name |-> <<"P">>, country |-> Undefined, latitude |-> 1, longitude |-> 1]
\* the same name and latitude as CityA, another longitude
CityB  == [name |-> <<"P">>, country |-> <<"U">>, latitude |-> 1, longitude |-> 2]
\* pairwise distinct cities
Filler(i) == [name |-> <<"F">>, country |-> <<"X">>, latitude |-> 100 + i, longitude |-> 0]
Fill(n) == [i \in 1..n |-> Filler(i)]

----------------------------------------------------------------------------
(* localStorage and JSON *)

Absent    == [text |-> "absent"]      \* getItem returns null
EmptyText == [text |-> "empty"]       \* the stored string ''
Garbage   == [text |-> "garbage"]     \* a stored string that is not JSON

\* JSON.stringify of a City: a property whose value is undefined is left out
CityToJSON(c) ==
    IF Country(c) = Undefined
    THEN [name |-> c.name, latitude |-> c.latitude, longitude |-> c.longitude]
    ELSE c

JSONstringifyCity(c) == [text |-> "json", value |-> CityToJSON(c)]

JSONstringifyList(l) ==
    [text |-> "json", value |-> [i \in 1..Len(l) |-> CityToJSON(l[i])]]

\* JSON.parse: the value the text denotes, or a SyntaxError
JSONparse(raw) ==
    IF raw.text = "json" THEN [ok |-> TRUE, value |-> raw.value] ELSE [ok |-> FALSE]

\* if (raw): null and '' are falsy
RawTruthy(raw) == raw.text \notin {"absent", "empty"}

----------------------------------------------------------------------------
(* Requests and timers *)

\* the smallest positive id not in use
FreshId(used) == CHOOSE i \in 1..(Cardinality(used) + 1) : i \notin used

RequestIds == {r.id : r \in inflight} \cup {suggestAbortRef, weatherAbortRef}

\* an abort that reaches every request in flight, of either kind
AbortEvery(reqs, ref) == {[r EXCEPT !.aborted = TRUE] : r \in reqs}

\* a fetch that is started without cancelling the one before
AbortNothing(reqs, ref) == reqs

\* ref.current?.abort(): the request of that controller, if still in flight,
\* is rejected with an AbortError
AbortController(reqs, ref) ==
    {IF r.id = ref THEN [r EXCEPT !.aborted = TRUE] ELSE r : r \in reqs}

\* a timeout that is never cleared
ClearNothing(ts, id) == ts

\* window.clearTimeout(id)
ClearTimeout(ts, id) == {t \in ts : t.id # id}

\* the continuation of a rejected promise is a microtask: it runs before the
\* next event, timer or response is handled
Idle == \A r \in inflight : ~r.aborted

\* the coordinates in each other's place
WeatherParamsSwapped(city) == [latitude |-> city.longitude, longitude |-> city.latitude]

\* the query string of the forecast request
WeatherParams(city) == [latitude |-> city.latitude, longitude |-> city.longitude]

WeatherRequest(id, city) ==
    [id |-> id, kind |-> "weather", name |-> <<>>, city |-> city,
     params |-> WeatherParams(city), stage |-> "fetch", aborted |-> FALSE]

SuggestRequest(id, name) ==
    [id |-> id, kind |-> "suggest", name |-> name, city |-> Null,
     params |-> [name |-> name], stage |-> "fetch", aborted |-> FALSE]

----------------------------------------------------------------------------
(* Initial states: the component as constructed, over a stored content *)

StoredFavorites ==
    { Absent, EmptyText, Garbage,
      JSONstringifyList(<<CityB>>),
      JSONstringifyList(Fill(FAV_CAP)),
      JSONstringifyList(<<CityA, CityA2>>),
      JSONstringifyList(Fill(MaxFill)) }

StoredLastCity == { Absent, EmptyText, Garbage, JSONstringifyCity(CityA2) }

InitState ==
    /\ phase = "init"
    /\ query = <<>>
    /\ suggestions = <<>>
    /\ selectedCity = Null
    /\ favorites = <<>>
    /\ weather = Null
    /\ loading = FALSE
    /\ loadingSuggest = FALSE
    /\ error = ErrNull
    /\ suggestAbortRef = 0
    /\ weatherAbortRef = 0
    /\ debounceRef = 0
    /\ timeouts = {}
    /\ inflight = {}
    /\ typed = [text |-> <<>>, quiet |-> 0, calls |-> 0, rapid |-> FALSE]
    /\ lastOp = [op |-> "init"]

\* the inputs of a behaviour: the texts typed, the geocoding and forecast
\* bodies received, whether a localStorage.setItem may succeed or throw, and
\* the cities the user clicks on when they are shown
Environment(texts, geo, forecasts, writes, clicks) ==
    [texts |-> texts, geo |-> geo, forecasts |-> forecasts, writes |-> writes,
     clicks |-> clicks]

----------------------------------------------------------------------------
(* React: a state setter called after the component was unmounted changes  *)
(* nothing                                                                  *)
SetState(cur, new) == IF phase = "mounted" THEN new ELSE cur

(* fetchWeather, up to its first await *)

\* a fetch that leaves the weather of the fetch before on display
FetchWeatherKeepsData(city) ==
    LET id == FreshId(RequestIds) IN
    /\ weather' = weather
    /\ loading' = TRUE
    /\ error' = ErrNull
    /\ inflight' = AbortController(inflight, weatherAbortRef)
                     \cup {WeatherRequest(id, city)}
    /\ weatherAbortRef' = id

FetchWeather(city) ==
    LET id == FreshId(RequestIds) IN
    /\ weather' = Null
    /\ loading' = TRUE
    /\ error' = ErrNull
    /\ inflight' = AbortController(inflight, weatherAbortRef)
                     \cup {WeatherRequest(id, city)}
    /\ weatherAbortRef' = id

NoFetchWeather ==
    UNCHANGED <<weather, loading, error, inflight, weatherAbortRef>>

(* The two effects run on mount.  The first restores the stored values      *)
(* inside one try block; the second runs again when selectedCity has been   *)
(* set, and fetches the weather.                                            *)
RestoreFavorites(st) ==
    IF RawTruthy(st.favorites)
    THEN JSONparse(st.favorites)
    ELSE [ok |-> TRUE, skipped |-> TRUE]

RestoreLastCity(st) ==
    IF RawTruthy(st.lastCity)
    THEN JSONparse(st.lastCity)
    ELSE [ok |-> TRUE, skipped |-> TRUE]

Mount ==
    LET fav  == RestoreFavorites(storage)
        city == RestoreLastCity(storage)
        \* a SyntaxError of the first parse leaves the try block
        cityRead == fav.ok /\ city.ok /\ "value" \in DOMAIN city
    IN
    /\ phase = "init"
    /\ phase' = "mounted"
    /\ favorites' = IF fav.ok /\ "value" \in DOMAIN fav THEN fav.value ELSE favorites
    /\ selectedCity' = IF cityRead THEN city.value ELSE selectedCity
    /\ IF cityRead THEN FetchWeather(city.value) ELSE NoFetchWeather
    /\ UNCHANGED env
    /\ lastOp' = [op |-> "mount"]
    /\ UNCHANGED <<storage, query, suggestions, loadingSuggest, suggestAbortRef,
                   debounceRef, timeouts, typed>>

\* a cleanup that forgets the weather request
UnmountKeepsWeather ==
    /\ phase = "mounted"
    /\ Idle
    /\ phase' = "unmounted"
    /\ inflight' = AbortController(inflight, suggestAbortRef)
    /\ timeouts' = IF debounceRef # 0 THEN ClearTimeout(timeouts, debounceRef)
                   ELSE timeouts
    /\ UNCHANGED env
    /\ lastOp' = [op |-> "unmount"]
    /\ UNCHANGED <<storage, query, suggestions, selectedCity, favorites, weather,
                   loading, loadingSuggest, error, suggestAbortRef,
                   weatherAbortRef, debounceRef, typed>>

\* the cleanup of the startup effect, run when the component is unmounted
Unmount ==
    /\ phase = "mounted"
    /\ Idle
    /\ phase' = "unmounted"
    /\ inflight' = AbortController(AbortController(inflight, suggestAbortRef),
                                   weatherAbortRef)
    /\ timeouts' = IF debounceRef # 0 THEN ClearTimeout(timeouts, debounceRef)
                   ELSE timeouts
    /\ UNCHANGED env
    /\ lastOp' = [op |-> "unmount"]
    /\ UNCHANGED <<storage, query, suggestions, selectedCity, favorites, weather,
                   loading, loadingSuggest, error, suggestAbortRef,
                   weatherAbortRef, debounceRef, typed>>

----------------------------------------------------------------------------
(* Selecting a city and the favorites *)

\* `${city.name}${city.country ? ` (${city.country})` : ''}`
CityLabel(city) ==
    city.name \o (IF Truthy(Country(city))
                  THEN <<" ", "(">> \o Country(city) \o <<")">>
                  ELSE <<>>)

(* selectCity, and the selectedCity effect after it.  The effect runs when  *)
(* the new value is another object than the old one: always when it differs *)
(* in a field, always when it comes from the suggestion list (those objects *)
(* were made after the last selection), and for an equal favorite either    *)
(* way, depending on which object the favorite is.                          *)
SelectCity(city, changed) ==
    /\ phase = "mounted"
    /\ Idle
    /\ city \in Range(suggestions) \cup Range(favorites)
    /\ city # selectedCity => changed
    /\ city \notin Range(favorites) => changed
    /\ changed => Cardinality(inflight) < MaxInFlight
    /\ selectedCity' = city
    /\ query' = CityLabel(city)
    /\ suggestions' = <<>>
    /\ IF changed THEN FetchWeather(city) ELSE NoFetchWeather
    /\ UNCHANGED env
    /\ lastOp' = [op |-> "selectCity", changed |-> changed]
    /\ UNCHANGED <<phase, storage, favorites, loadingSuggest, suggestAbortRef,
                   debounceRef, timeouts, typed>>

\* the 查询 button: disabled={!selectedCity || loading}
Requery ==
    /\ phase = "mounted"
    /\ Idle
    /\ selectedCity # Null
    /\ ~loading
    /\ Cardinality(inflight) < MaxInFlight
    /\ FetchWeather(selectedCity)
    /\ UNCHANGED env
    /\ lastOp' = [op |-> "requery"]
    /\ UNCHANGED <<phase, storage, query, suggestions, selectedCity, favorites,
                   loadingSuggest, suggestAbortRef, debounceRef, timeouts, typed>>

HasFavorited(favs, city) ==
    IF city = Null THEN FALSE
    ELSE \E i \in 1..Len(favs) : SameCity(favs[i], city)

\* a filter that keeps every entry
RemoveNothing(favs, city) == favs

RemoveFavorite(favs, city) == SelectSeq(favs, LAMBDA c : ~SameCity(c, city))

\* a city added at the end of the list
AddFavoriteLast(favs, city) == Slice(favs \o <<city>>, FAV_CAP)

AddFavorite(favs, city) == Slice(<<city>> \o favs, FAV_CAP)

ToggledFavorites(favs, city) ==
    IF HasFavorited(favs, city) THEN RemoveFavorite(favs, city)
    ELSE AddFavorite(favs, city)

\* the state updated only after a write that succeeded
SaveFavoritesIfWritten(next, writeOk) ==
    /\ favorites' = IF writeOk THEN next ELSE favorites
    /\ storage' = IF writeOk
                  THEN [storage EXCEPT !.favorites = JSONstringifyList(next)]
                  ELSE storage

\* the list written under the key of the last city
SaveUnderLastCityKey(next, writeOk) ==
    /\ favorites' = next
    /\ storage' = IF writeOk
                  THEN [storage EXCEPT !.lastCity = JSONstringifyList(next)]
                  ELSE storage

\* saveFavorites: setItem may throw (quota), which is ignored
SaveFavorites(next, writeOk) ==
    /\ favorites' = next
    /\ storage' = IF writeOk
                  THEN [storage EXCEPT !.favorites = JSONstringifyList(next)]
                  ELSE storage

ToggleFavorite(writeOk) ==
    /\ phase = "mounted"
    /\ Idle
    /\ IF selectedCity = Null
       THEN UNCHANGED <<favorites, storage>>
       ELSE SaveFavorites(ToggledFavorites(favorites, selectedCity), writeOk)
    /\ UNCHANGED env
    /\ lastOp' = [op |-> "toggleFavorite",
                  had |-> HasFavorited(favorites, selectedCity),
                  before |-> favorites, writeOk |-> writeOk]
    /\ UNCHANGED <<phase, query, suggestions, selectedCity, weather, loading,
                   loadingSuggest, error, suggestAbortRef, weatherAbortRef,
                   debounceRef, timeouts, inflight, typed>>

----------------------------------------------------------------------------
(* The search box *)

SetTimeout(ts, v) ==
    ts \cup {[id |-> FreshId({t.id : t \in ts}), v |-> v, elapsed |-> 0]}

OnQueryChange(v) ==
    LET cleared == IF debounceRef # 0 THEN ClearTimeout(timeouts, debounceRef)
                   ELSE timeouts
    IN
    /\ phase = "mounted"
    /\ Idle
    /\ Cardinality(cleared) < MaxTimers
    /\ query' = v
    /\ error' = ErrNull
    /\ suggestions' = <<>>
    /\ timeouts' = SetTimeout(cleared, v)
    /\ debounceRef' = FreshId({t.id : t \in cleared})
    /\ typed' = [text |-> v, quiet |-> 0, calls |-> 0,
                  rapid |-> debounceRef # 0 /\ typed.quiet < DEBOUNCE_MS]
    /\ UNCHANGED env
    /\ lastOp' = [op |-> "onQueryChange"]
    /\ UNCHANGED <<phase, storage, selectedCity, favorites, weather, loading,
                   loadingSuggest, suggestAbortRef, weatherAbortRef, inflight>>

\* time passes; it is followed only until the pending timeouts are due
Tick ==
    /\ Idle
    /\ \E t \in timeouts : t.elapsed < DEBOUNCE_MS
    /\ timeouts' = {[t EXCEPT !.elapsed = Min(DEBOUNCE_MS, @ + TickStep)] : t \in timeouts}
    /\ typed' = [typed EXCEPT !.quiet = Min(DEBOUNCE_MS, @ + TickStep)]
    /\ UNCHANGED env
    /\ lastOp' = [op |-> "tick"]
    /\ UNCHANGED <<phase, storage, query, suggestions, selectedCity, favorites,
                   weather, loading, loadingSuggest, error, suggestAbortRef,
                   weatherAbortRef, debounceRef, inflight>>

\* a test for the empty string that does not trim
IsEmpty(name) == name = <<>>

\* name.trim() is empty
IsBlank(name) == Trim(name) = <<>>

\* fetchSuggestions, up to its first await
FetchSuggestions(name) ==
    IF IsBlank(name)
    THEN /\ suggestions' = SetState(suggestions, <<>>)
         /\ UNCHANGED <<loadingSuggest, inflight, suggestAbortRef>>
    ELSE LET id == FreshId(RequestIds) IN
         /\ loadingSuggest' = SetState(loadingSuggest, TRUE)
         /\ inflight' = AbortController(inflight, suggestAbortRef)
                          \cup {SuggestRequest(id, name)}
         /\ suggestAbortRef' = id
         /\ UNCHANGED suggestions

\* the timeout set by onQueryChange is due: its callback runs, whether or
\* not the component is still mounted
TimerFire(t) ==
    /\ Idle
    /\ t \in timeouts
    /\ t.elapsed >= DEBOUNCE_MS
    /\ Cardinality(inflight) < MaxInFlight
    /\ timeouts' = timeouts \ {t}
    /\ FetchSuggestions(t.v)
    /\ typed' = IF IsBlank(t.v) THEN typed ELSE [typed EXCEPT !.calls = @ + 1]
    /\ UNCHANGED env
    /\ lastOp' = [op |-> "timer", v |-> t.v]
    /\ UNCHANGED <<phase, storage, query, selectedCity, favorites, weather,
                   loading, error, weatherAbortRef, debounceRef>>

----------------------------------------------------------------------------
(* The responses *)

\* an AbortError that is not recognised
NeverAbortError(e) == FALSE

IsAbortError(e) == e = "AbortError"

\* the catch blocks of fetchSuggestions and fetchWeather
CatchError(kind, e, err) ==
    IF ~IsAbortError(e)
    THEN (IF kind = "suggest" THEN SEARCH_FAILED ELSE WEATHER_FAILED)
    ELSE err

\* the finally blocks: the loading flag of the request's kind is cleared
Finally(kind) ==
    /\ loading' = IF kind = "weather" THEN SetState(loading, FALSE) ELSE loading
    /\ loadingSuggest' = IF kind = "suggest" THEN SetState(loadingSuggest, FALSE)
                         ELSE loadingSuggest

\* fetch resolves with res.ok: the function goes on to await res.json()
ResponseHeaders(r) ==
    /\ Idle
    /\ r \in inflight
    /\ r.stage = "fetch"
    /\ inflight' = (inflight \ {r}) \cup {[r EXCEPT !.stage = "json"]}
    /\ UNCHANGED env
    /\ lastOp' = [op |-> "headers"]
    /\ UNCHANGED <<phase, storage, query, suggestions, selectedCity, favorites,
                   weather, loading, loadingSuggest, error, suggestAbortRef,
                   weatherAbortRef, debounceRef, timeouts, typed>>

\* what a request that is not aborted can fail with, and the error thrown
Failures(r) ==
    IF r.stage = "fetch" THEN {"network", "http"}
    ELSE IF r.kind = "weather" THEN {"syntax", "shape"}
    ELSE {"syntax"}

ErrorName(cause) ==
    CASE cause = "network" -> "TypeError"
      [] cause = "http"    -> "Error"
      [] cause = "syntax"  -> "SyntaxError"
      [] cause = "shape"   -> "TypeError"

RequestFails(r, cause) ==
    /\ Idle
    /\ r \in inflight
    /\ cause \in Failures(r)
    /\ error' = SetState(error, CatchError(r.kind, ErrorName(cause), error))
    /\ Finally(r.kind)
    /\ inflight' = inflight \ {r}
    /\ UNCHANGED env
    /\ lastOp' = [op |-> "failed", id |-> r.id, kind |-> r.kind]
    /\ UNCHANGED <<phase, storage, query, suggestions, selectedCity, favorites,
                   weather, suggestAbortRef, weatherAbortRef, debounceRef,
                   timeouts, typed>>

\* the promise of an aborted request rejects with an AbortError
AbortSettle(r) ==
    /\ r \in inflight
    /\ r.aborted
    /\ error' = SetState(error, CatchError(r.kind, "AbortError", error))
    /\ Finally(r.kind)
    /\ inflight' = inflight \ {r}
    /\ UNCHANGED env
    /\ lastOp' = [op |-> "aborted", id |-> r.id, kind |-> r.kind]
    /\ UNCHANGED <<phase, storage, query, suggestions, selectedCity, favorites,
                   weather, suggestAbortRef, weatherAbortRef, debounceRef,
                   timeouts, typed>>

\* data.results?.map(...) ?? []
MapResults(data) ==
    IF "results" \in DOMAIN data
    THEN [i \in 1..Len(data.results) |->
            [name      |-> data.results[i].name,
             country   |-> Country(data.results[i]),
             latitude  |-> data.results[i].latitude,
             longitude |-> data.results[i].longitude]]
    ELSE <<>>

SuggestionsArrive(r, data) ==
    /\ Idle
    /\ r \in inflight
    /\ r.kind = "suggest"
    /\ r.stage = "json"
    /\ suggestions' = SetState(suggestions, MapResults(data))
    /\ Finally(r.kind)
    /\ inflight' = inflight \ {r}
    /\ UNCHANGED env
    /\ lastOp' = [op |-> "suggestions", id |-> r.id, name |-> r.name]
    /\ UNCHANGED <<phase, storage, query, selectedCity, favorites, weather,
                   error, suggestAbortRef, weatherAbortRef, debounceRef,
                   timeouts, typed>>

\* the hourlySlice of fetchWeather
HourlySlice(hourly) ==
    LET next24IdxEnd == Min(HOURS, Len(hourly.time)) IN
    [time                |-> Slice(hourly.time, next24IdxEnd),
     temperature_2m      |-> Slice(hourly.temperature_2m, next24IdxEnd),
     relativehumidity_2m |-> Slice(hourly.relativehumidity_2m, next24IdxEnd)]

WeatherOf(data) ==
    [current |-> [temperature   |-> data.current_weather.temperature,
                  windspeed     |-> data.current_weather.windspeed,
                  winddirection |-> data.current_weather.winddirection,
                  time          |-> data.current_weather.time],
     hourly  |-> HourlySlice(data.hourly)]

WeatherArrives(r, data, writeOk) ==
    /\ Idle
    /\ r \in inflight
    /\ r.kind = "weather"
    /\ r.stage = "json"
    /\ weather' = SetState(weather, WeatherOf(data))
    /\ storage' = IF writeOk
                  THEN [storage EXCEPT !.lastCity = JSONstringifyCity(r.city)]
                  ELSE storage
    /\ Finally(r.kind)
    /\ inflight' = inflight \ {r}
    /\ UNCHANGED env
    /\ lastOp' = [op |-> "weather", id |-> r.id, hourly |-> data.hourly]
    /\ UNCHANGED <<phase, query, suggestions, selectedCity, favorites, error,
                   suggestAbortRef, weatherAbortRef, debounceRef, timeouts, typed>>

----------------------------------------------------------------------------
(* The inputs *)

Texts == { <<" ">>, <<"a">>, <<"b">> }

GeoResponses ==
    { [results |-> <<CityA, CityB>>],
      [results |-> <<CityToJSON(CityA2)>>],
      [generationtime_ms |-> 1] }

Series(n, base) == [i \in 1..n |-> base + i]

UpstreamLens == { 1, 2, HOURS, MaxUpstream }

CurrentWeather == [temperature |-> 20, windspeed |-> 5, winddirection |-> 90, time |-> 0]

Forecasts ==
    { [current_weather |-> CurrentWeather,
       hourly |-> [time                |-> Series(a, 0),
                   temperature_2m      |-> Series(b, 100),
                   relativehumidity_2m |-> Series(c, 200)]]
      : a \in UpstreamLens, b \in UpstreamLens, c \in UpstreamLens }

Causes == {"network", "http", "syntax", "shape"}

(* The whole app *)
Next ==
    \/ Mount
    \/ Unmount
    \/ \E v \in env.texts : OnQueryChange(v)
    \/ Tick
    \/ \E t \in timeouts : TimerFire(t)
    \/ \E r \in inflight : ResponseHeaders(r)
    \/ \E r \in inflight : \E cause \in Causes : RequestFails(r, cause)
    \/ \E r \in inflight : AbortSettle(r)
    \/ \E r \in inflight : \E data \in env.geo : SuggestionsArrive(r, data)
    \/ \E r \in inflight : \E data \in env.forecasts : \E writeOk \in env.writes :
          WeatherArrives(r, data, writeOk)
    \/ \E city \in env.clicks : \E changed \in BOOLEAN : SelectCity(city, changed)
    \/ Requery
    \/ \E writeOk \in env.writes : ToggleFavorite(writeOk)

OneForecast == CHOOSE f \in Forecasts : TRUE

Init ==
    /\ InitState
    /\ storage = [favorites |-> Absent, lastCity |-> Absent]
    /\ env = Environment({<<"a">>}, {[results |-> <<CityA, CityB>>]},
                         {OneForecast}, {TRUE}, {CityB})

Spec == Init /\ [][Next]_vars

(* The search box and the requests, without the favorites *)
NextSearch ==
    \/ Mount
    \/ Unmount
    \/ \E v \in env.texts : OnQueryChange(v)
    \/ Tick
    \/ \E t \in timeouts : TimerFire(t)
    \/ \E r \in inflight : ResponseHeaders(r)
    \/ \E r \in inflight : \E cause \in Causes : RequestFails(r, cause)
    \/ \E r \in inflight : AbortSettle(r)
    \/ \E r \in inflight : \E data \in env.geo : SuggestionsArrive(r, data)
    \/ \E r \in inflight : \E data \in env.forecasts : \E writeOk \in env.writes :
          WeatherArrives(r, data, writeOk)
    \/ \E city \in env.clicks : \E changed \in BOOLEAN : SelectCity(city, changed)
    \/ Requery

InitSearch ==
    /\ InitState
    /\ storage = [favorites |-> Absent, lastCity |-> Absent]
    /\ env = Environment(Texts, GeoResponses, {OneForecast}, {TRUE}, {CityA, CityB})

SpecSearch == InitSearch /\ [][NextSearch]_vars

(* The stored values, the selection and the favorites, without the search box *)
NextFavorites ==
    \/ Mount
    \/ Unmount
    \/ \E r \in inflight : ResponseHeaders(r)
    \/ \E r \in inflight : \E cause \in Causes : RequestFails(r, cause)
    \/ \E r \in inflight : AbortSettle(r)
    \/ \E r \in inflight : \E data \in env.forecasts : \E writeOk \in env.writes :
          WeatherArrives(r, data, writeOk)
    \/ \E city \in env.clicks : \E changed \in BOOLEAN : SelectCity(city, changed)
    \/ Requery
    \/ \E writeOk \in env.writes : ToggleFavorite(writeOk)

InitFavorites ==
    /\ InitState
    /\ storage \in [favorites : StoredFavorites, lastCity : StoredLastCity]
    /\ env = Environment({}, {}, {OneForecast}, BOOLEAN,
                         {CityB, CityToJSON(CityA2), Filler(1), Filler(FAV_CAP)})

SpecFavorites == InitFavorites /\ [][NextFavorites]_vars

(* The weather of a restored city, over every forecast body *)
NextWeather ==
    \/ Mount
    \/ Unmount
    \/ \E r \in inflight : ResponseHeaders(r)
    \/ \E r \in inflight : \E cause \in Causes : RequestFails(r, cause)
    \/ \E r \in inflight : AbortSettle(r)
    \/ \E r \in inflight : \E data \in env.forecasts : \E writeOk \in env.writes :
          WeatherArrives(r, data, writeOk)
    \/ Requery

InitWeather ==
    /\ InitState
    /\ storage = [favorites |-> Absent, lastCity |-> JSONstringifyCity(CityB)]
    /\ env = Environment({}, {}, Forecasts, BOOLEAN, {})

SpecWeather == InitWeather /\ [][NextWeather]_vars

(* The scenario of the favorites: from nothing stored, the user searches,   *)
(* selects the one city found and stars it, one new city after another.     *)

\* the rounds of the scenario
MaxScenario == 22

\* the number of cities starred so far: Filler(1), ..., Filler(ScenarioCount)
ScenarioCount ==
    IF selectedCity = Null THEN 0
    ELSE IF HasFavorited(favorites, selectedCity) THEN selectedCity.latitude - 100
    ELSE selectedCity.latitude - 101

ScenarioSearch ==
    /\ selectedCity = Null \/ HasFavorited(favorites, selectedCity)
    /\ ScenarioCount < MaxScenario
    /\ timeouts = {}
    /\ suggestions = <<>>
    /\ \A r \in inflight : r.kind # "suggest"
    /\ OnQueryChange(<<"a">>)

ScenarioFound ==
    \E r \in inflight :
        SuggestionsArrive(r, [results |-> <<Filler(ScenarioCount + 1)>>])

ScenarioSelect == SelectCity(Filler(ScenarioCount + 1), TRUE)

ScenarioStar ==
    /\ selectedCity # Null
    /\ ~HasFavorited(favorites, selectedCity)
    /\ ToggleFavorite(TRUE)

NextScenario ==
    \/ Mount
    \/ ScenarioSearch
    \/ Tick
    \/ \E t \in timeouts : TimerFire(t)
    \/ \E r \in inflight : ResponseHeaders(r)
    \/ \E r \in inflight : AbortSettle(r)
    \/ ScenarioFound
    \/ \E r \in inflight : WeatherArrives(r, OneForecast, TRUE)
    \/ ScenarioSelect
    \/ ScenarioStar

InitScenario ==
    /\ InitState
    /\ storage = [favorites |-> Absent, lastCity |-> Absent]
    /\ env = Environment({<<"a">>}, {}, {OneForecast}, {TRUE}, {})

SpecScenario == InitScenario /\ [][NextScenario]_vars

(* The search box alone, over empty, blank and padded texts *)
TypedTexts == { <<>>, <<" ">>, <<" ", " ">>, <<"a">>, <<" ", "a">> }

NextTyping ==
    \/ Mount
    \/ Unmount
    \/ \E v \in env.texts : OnQueryChange(v)
    \/ Tick
    \/ \E t \in timeouts : TimerFire(t)
    \/ \E r \in inflight : ResponseHeaders(r)
    \/ \E r \in inflight : \E cause \in Causes : RequestFails(r, cause)
    \/ \E r \in inflight : AbortSettle(r)
    \/ \E r \in inflight : \E data \in env.geo : SuggestionsArrive(r, data)

InitTyping ==
    /\ InitState
    /\ storage = [favorites |-> Absent, lastCity |-> Absent]
    /\ env = Environment(TypedTexts, {[results |-> <<CityA, CityB>>]}, {}, {}, {})

SpecTyping == InitTyping /\ [][NextTyping]_vars

(* The weather of a restored city, queried again at will, beside the search *)
(* box and the selection of another city.  What the platform does is bound  *)
(* to happen: the effects run on mount, a cancelled request rejects, time   *)
(* passes and a due timeout fires, and a request in flight is answered or   *)
(* fails.  The last three wait only for the rejection of a cancelled        *)
(* request to be handled, which takes no time: they happen if they can      *)
(* happen again and again.  What the user does (typing, selecting, the      *)
(* query button, leaving the page) is not bound to happen.                  *)
Responses(kind) ==
    \E r \in {q \in inflight : q.kind = kind} :
        \/ ResponseHeaders(r)
        \/ \E cause \in Causes : RequestFails(r, cause)
        \/ \E data \in env.geo : SuggestionsArrive(r, data)
        \/ \E data \in env.forecasts : \E writeOk \in env.writes :
              WeatherArrives(r, data, writeOk)

NextLive ==
    \/ Mount
    \/ Unmount
    \/ \E v \in env.texts : OnQueryChange(v)
    \/ Tick
    \/ \E t \in timeouts : TimerFire(t)
    \/ \E r \in inflight : AbortSettle(r)
    \/ \E kind \in {"suggest", "weather"} : Responses(kind)
    \/ \E city \in env.clicks : \E changed \in BOOLEAN : SelectCity(city, changed)
    \/ Requery

InitLive ==
    /\ InitState
    /\ storage = [favorites |-> Absent, lastCity |-> JSONstringifyCity(CityB)]
    /\ env = Environment({<<"a">>}, {[results |-> <<CityA, CityB>>]},
                         {OneForecast}, {TRUE}, {CityA})

SpecLive ==
    /\ InitLive
    /\ [][NextLive]_vars
    /\ WF_vars(Mount)
    /\ WF_vars(\E r \in inflight : AbortSettle(r))
    /\ SF_vars(Tick)
    /\ SF_vars(\E t \in timeouts : TimerFire(t))
    /\ \A kind \in {"suggest", "weather"} : SF_vars(Responses(kind))

(* The sessions: the page is loaded again and again over the same storage.  *)
(* A load constructs the component anew: the state and the refs start from  *)
(* their initial values, the timeouts and requests of the page before are   *)
(* gone, and only localStorage is kept.                                     *)
Reload ==
    /\ phase # "init"
    /\ Idle
    /\ phase' = "init"
    /\ query' = <<>>
    /\ suggestions' = <<>>
    /\ selectedCity' = Null
    /\ favorites' = <<>>
    /\ weather' = Null
    /\ loading' = FALSE
    /\ loadingSuggest' = FALSE
    /\ error' = ErrNull
    /\ suggestAbortRef' = 0
    /\ weatherAbortRef' = 0
    /\ debounceRef' = 0
    /\ timeouts' = {}
    /\ inflight' = {}
    /\ typed' = [text |-> <<>>, quiet |-> 0, calls |-> 0, rapid |-> FALSE]
    /\ lastOp' = [op |-> "reload"]
    /\ UNCHANGED <<storage, env>>

\* the user types when nothing is pending
SessionSearch ==
    /\ inflight = {}
    /\ timeouts = {}
    /\ suggestions = <<>>
    /\ \E v \in env.texts : OnQueryChange(v)

NextSessions ==
    \/ Mount
    \/ Reload
    \/ SessionSearch
    \/ Tick
    \/ \E t \in timeouts : TimerFire(t)
    \/ \E r \in inflight : ResponseHeaders(r)
    \/ \E r \in inflight : \E cause \in Causes : RequestFails(r, cause)
    \/ \E r \in inflight : AbortSettle(r)
    \/ \E r \in inflight : \E data \in env.geo : SuggestionsArrive(r, data)
    \/ \E r \in inflight : \E data \in env.forecasts : \E writeOk \in env.writes :
          WeatherArrives(r, data, writeOk)
    \/ \E city \in env.clicks : \E changed \in BOOLEAN : SelectCity(city, changed)
    \/ \E writeOk \in env.writes : ToggleFavorite(writeOk)

InitSessions ==
    /\ InitState
    /\ storage \in [favorites : {Absent, Garbage}, lastCity : {Absent}]
    /\ env = Environment({<<"a">>}, {[results |-> <<CityA, CityB>>]},
                         {OneForecast}, BOOLEAN, {CityA, CityB})

SpecSessions == InitSessions /\ [][NextSessions]_vars

----------------------------------------------------------------------------
(* The claims *)

\* the requests of a kind that a step starts
Started(kind) ==
    {r \in inflight' : /\ r.kind = kind
                       /\ r.id \notin {q.id : q \in inflight}}

\* C1: the result of a request is written to the state (suggestions, weather,
\* the stored last city) only by the request started last of its kind: a
\* superseded request never writes its result, whenever it completes.
C1_OnlyLatestRequestWrites ==
    /\ lastOp.op = "suggestions" => lastOp.id = suggestAbortRef
    /\ lastOp.op = "weather" => lastOp.id = weatherAbortRef

\* a superseded weather request has completed while its successor is in
\* flight, and has left the state of the successor as it was
C1_Witness ==
    /\ lastOp.op = "aborted"
    /\ lastOp.kind = "weather"
    /\ lastOp.id # weatherAbortRef
    /\ weather = Null
    /\ \E r \in inflight : r.kind = "weather" /\ r.id = weatherAbortRef /\ ~r.aborted

\* C2: a suggestion list that is not empty is the response to a request made
\* for the text now in the input: a response for an earlier text never
\* populates the list after a later text was entered or a city was selected.
C2_SuggestionsAnswerTheQuery ==
    (lastOp.op = "suggestions" /\ suggestions # <<>>) => lastOp.name = query

\* C3: a suggestion request is started only after DEBOUNCE_MS of quiet since
\* the last change of the query, for the text of that change, and at most once
\* per change: of changes that follow each other faster, only the last one
\* leads to a request.
C3_OnlyLastTextIsRequested ==
    [][\A r \in Started("suggest") :
          /\ typed.quiet >= DEBOUNCE_MS
          /\ r.name = typed.text
          /\ r.params.name = typed.text
          /\ typed.calls = 0
          /\ Cardinality(Started("suggest")) = 1]_vars

\* the timer of a change that came within the delay of the one before has
\* fired and started the one request, for the last text
C3_Witness ==
    /\ lastOp.op = "timer"
    /\ typed.rapid
    /\ typed.calls = 1
    /\ \E r \in inflight : r.kind = "suggest" /\ ~r.aborted /\ r.name = typed.text

\* the claim's triple: two entries are the same city
SameTriple(c, d) ==
    <<c.name, c.latitude, c.longitude>> = <<d.name, d.latitude, d.longitude>>

\* C4: the favorites have at most FAV_CAP entries, and no two of them have the
\* same (name, latitude, longitude).
C4_FavoritesCappedAndUnique ==
    /\ Len(favorites) <= FAV_CAP
    /\ \A i, j \in 1..Len(favorites) :
          i # j => ~SameTriple(favorites[i], favorites[j])

\* a sequence without its i-th entry
RemoveAt(s, i) == SubSeq(s, 1, i - 1) \o SubSeq(s, i + 1, Len(s))

\* C5: toggleFavorite removes exactly the entry of the selected city when
\* there is one, keeping the others in order; prepends the city and keeps the
\* first FAV_CAP entries when there is none; and does nothing when no city is
\* selected.
C5_ToggleRemovesOneOrPrepends ==
    [][lastOp'.op = "toggleFavorite" =>
          IF selectedCity = Null THEN favorites' = favorites
          ELSE IF \E i \in 1..Len(favorites) : SameTriple(favorites[i], selectedCity)
          THEN \E i \in 1..Len(favorites) :
                  /\ SameTriple(favorites[i], selectedCity)
                  /\ favorites' = RemoveAt(favorites, i)
          ELSE favorites' = SubSeq(<<selectedCity>> \o favorites, 1,
                                   Min(FAV_CAP, Len(favorites) + 1))]_vars

\* C6: after starring N distinct cities one after another from an empty list,
\* the favorites are the Min(N, FAV_CAP) cities starred last, the last first.
C6_KeepsMostRecent ==
    favorites = [i \in 1..Min(ScenarioCount, FAV_CAP) |->
                    Filler(ScenarioCount + 1 - i)]

\* FAV_CAP + 1 cities were starred, and the first of them is the one dropped
C6_Witness ==
    /\ ScenarioCount = FAV_CAP + 1
    /\ lastOp.op = "toggleFavorite"
    /\ Len(favorites) = FAV_CAP
    /\ Filler(1) \notin Range(favorites)
    /\ favorites[FAV_CAP] = Filler(2)

\* the three series of an hourly record
HourlySeries(h) == <<h.time, h.temperature_2m, h.relativehumidity_2m>>

\* the three series of the stored record have n entries, those of upstream
AlignedPrefix(stored, upstream, n) ==
    \A k \in 1..3 :
        /\ Len(HourlySeries(stored)[k]) = n
        /\ n <= Len(HourlySeries(upstream)[k])
        /\ \A i \in 1..n : HourlySeries(stored)[k][i] = HourlySeries(upstream)[k][i]

\* C7: after a successful weather fetch each stored series has
\* Min(HOURS, upstream length) entries, entry i being upstream's entry i;
\* for series of different lengths, whichever of them "upstream length" is
\* taken to be, or each series' own.
C7_HourlyTruncatedAndAligned ==
    lastOp.op = "weather" =>
        \/ \E k \in 1..3 :
              AlignedPrefix(weather.hourly, lastOp.hourly,
                            Min(HOURS, Len(HourlySeries(lastOp.hourly)[k])))
        \/ \A k \in 1..3 :
              HourlySeries(weather.hourly)[k] =
                  SubSeq(HourlySeries(lastOp.hourly)[k], 1,
                         Min(HOURS, Len(HourlySeries(lastOp.hourly)[k])))

\* C8: a selection that changes the selected city starts exactly one weather
\* request, for the latitude and longitude of that city; typing, a suggestion
\* response and toggleFavorite start none.
C8_SelectionStartsOneWeatherRequest ==
    [][/\ (lastOp'.op = "selectCity" /\ selectedCity' # selectedCity) =>
            /\ Cardinality(Started("weather")) = 1
            /\ \A r \in Started("weather") :
                  /\ r.params.latitude = selectedCity'.latitude
                  /\ r.params.longitude = selectedCity'.longitude
       /\ lastOp'.op \in {"onQueryChange", "timer", "suggestions", "toggleFavorite"} =>
            Started("weather") = {}]_vars

\* the second of the cities found was selected, and the one weather request
\* in flight is for its coordinates
C8_Witness ==
    /\ lastOp.op = "selectCity"
    /\ selectedCity = CityB
    /\ query = CityLabel(CityB)
    /\ Cardinality({r \in inflight : r.kind = "weather"}) = 1
    /\ \A r \in inflight : r.kind = "weather" => r.params = [latitude |-> 1, longitude |-> 2]

\* whether a stored text is JSON
Parses(raw) == raw.text = "json"

\* C9: at startup each stored value is restored when it parses and taken as
\* absent otherwise, whatever the other value is.
C9_RestoresEachValueAlone ==
    lastOp.op = "mount" =>
        /\ favorites = IF Parses(storage.favorites) THEN storage.favorites.value
                       ELSE <<>>
        /\ selectedCity = IF Parses(storage.lastCity) THEN storage.lastCity.value
                          ELSE Null

\* C10: a cancelled request leaves the error message as it is; a request that
\* fails otherwise sets the message of its kind and clears its loading flag.
C10_OnlyFailuresSetTheError ==
    [][/\ lastOp'.op = "aborted" => error' = error
       /\ lastOp'.op = "failed" =>
            /\ lastOp'.kind = "suggest" => error' = SEARCH_FAILED /\ ~loadingSuggest'
            /\ lastOp'.kind = "weather" => error' = WEATHER_FAILED /\ ~loading']_vars

\* a weather request has failed and set its message, and the cancellation of
\* a suggestion request after it has left the message in place
C10_Witness ==
    /\ lastOp.op = "aborted"
    /\ lastOp.kind = "suggest"
    /\ error = WEATHER_FAILED
    /\ ~loading

\* the requests of a kind that are started, not cancelled and not completed
Outstanding(reqs, kind) == {r \in reqs : r.kind = kind /\ ~r.aborted}

\* C11: at most one suggestion request and at most one weather request is
\* outstanding; a step that starts a request of a kind cancels the outstanding
\* requests of that kind and leaves the requests of the other kind as they are.
C11_OneOutstandingPerKind ==
    [][\A kind \in {"suggest", "weather"} :
          /\ Cardinality(Outstanding(inflight', kind)) <= 1
          /\ Started(kind) # {} =>
                /\ Outstanding(inflight', kind) = Started(kind)
                /\ \A r \in inflight :
                      IF r.kind = kind
                      THEN [r EXCEPT !.aborted = TRUE] \in inflight'
                      ELSE r \in inflight']_vars

\* a weather request was started over one in flight, which it cancelled,
\* while the suggestion request in flight is still outstanding
C11_Witness ==
    /\ lastOp.op \in {"selectCity", "requery"}
    /\ \E r \in inflight : r.kind = "weather" /\ r.aborted
    /\ Cardinality(Outstanding(inflight, "weather")) = 1
    /\ Cardinality(Outstanding(inflight, "suggest")) = 1

\* C12: the teardown cancels every outstanding request and clears the pending
\* timer; after it no request is started, and no state variable and no stored
\* value changes.
C12_NothingAfterTeardown ==
    [][/\ lastOp'.op = "unmount" =>
            /\ \A r \in inflight' : r.aborted
            /\ timeouts' = {}
       /\ phase = "unmounted" =>
            /\ Started("suggest") \cup Started("weather") = {}
            /\ UNCHANGED <<query, suggestions, selectedCity, favorites, weather,
                           error, loading, loadingSuggest, storage>>]_vars

\* the component was torn down with a weather request in flight; the request
\* has settled as cancelled since, and nothing of it was written
C12_Witness ==
    /\ phase = "unmounted"
    /\ lastOp.op = "aborted"
    /\ lastOp.kind = "weather"
    /\ inflight = {}
    /\ weather = Null
    /\ storage.lastCity = Absent

\* C13: the error message is cleared at the start of each operation: in the
\* state in which a suggestion request or a weather request has just been
\* started, error is null.
C13_ErrorClearedAtStart ==
    [][(Started("suggest") # {} \/ Started("weather") # {}) => error' = ErrNull]_vars

\* the stored text denotes the city c
StoredCityIs(raw, c) ==
    /\ raw.text = "json"
    /\ <<raw.value.name, raw.value.latitude, raw.value.longitude>> =
          <<c.name, c.latitude, c.longitude>>
    /\ Country(raw.value) = Country(c)

\* C14: the stored last city changes only in the step in which a weather
\* fetch succeeds, and to the city of that fetch; a weather fetch that fails
\* or is cancelled, selectCity, typing and toggleFavorite leave it as it is.
C14_LastCityWrittenOnSuccessOnly ==
    [][/\ storage'.lastCity # storage.lastCity => lastOp'.op = "weather"
       /\ lastOp'.op = "weather" =>
            \E r \in inflight \ inflight' :
                /\ r.kind = "weather"
                /\ r.id = lastOp'.id
                /\ \/ storage'.lastCity = storage.lastCity
                   \/ StoredCityIs(storage'.lastCity, r.city)
       /\ lastOp'.op \in {"failed", "aborted", "selectCity", "onQueryChange",
                          "timer", "toggleFavorite"} =>
            storage'.lastCity = storage.lastCity]_vars

\* a weather fetch has failed after one that succeeded for the selected city,
\* and the stored last city is still that city
C14_Witness ==
    /\ lastOp.op = "failed"
    /\ lastOp.kind = "weather"
    /\ selectedCity # Null
    /\ StoredCityIs(storage.lastCity, selectedCity)

\* C15: a session that follows another starts with the city stored by the
\* last weather fetch whose write succeeded (by C14 the stored last city)
\* as the selected city and with exactly one weather request, for its
\* coordinates; with nothing stored it starts with no city and no request.
C15_LastCityRoundTrip ==
    [][(lastOp.op = "reload" /\ lastOp'.op = "mount") =>
          IF storage.lastCity.text = "json"
          THEN /\ selectedCity' # Null
               /\ StoredCityIs(storage.lastCity, selectedCity')
               /\ Cardinality(Started("weather")) = 1
               /\ \A r \in Started("weather") :
                     /\ r.params.latitude = storage.lastCity.value.latitude
                     /\ r.params.longitude = storage.lastCity.value.longitude
          ELSE /\ selectedCity' = Null
               /\ Started("weather") = {}]_vars

\* the list a toggle for city c makes of favs
NewList(favs, c) ==
    IF \E i \in 1..Len(favs) : SameTriple(favs[i], c)
    THEN SelectSeq(favs, LAMBDA d : ~SameTriple(d, c))
    ELSE SubSeq(<<c>> \o favs, 1, Min(FAV_CAP, Len(favs) + 1))

\* the stored text denotes the list l
StoredListIs(raw, l) ==
    /\ raw.text = "json"
    /\ Len(raw.value) = Len(l)
    /\ \A i \in 1..Len(l) :
          StoredCityIs([text |-> "json", value |-> raw.value[i]], l[i])

\* C16: a toggleFavorite with a city selected changes the list, and sets the
\* favorites in memory to the new list whether the write succeeds or throws;
\* the stored favorites are the new list after a write that succeeded and
\* are unchanged after one that threw; error, weather, the selected city and
\* the loading flags stay as they are.
C16_ToggleUpdatesMemoryWhateverTheWrite ==
    [][(lastOp'.op = "toggleFavorite" /\ selectedCity # Null) =>
          /\ favorites' # favorites
          /\ favorites' = NewList(favorites, selectedCity)
          /\ IF lastOp'.writeOk
             THEN StoredListIs(storage'.favorites, favorites')
             ELSE storage'.favorites = storage.favorites
          /\ UNCHANGED <<error, weather, selectedCity, loading,
                         loadingSuggest>>]_vars

\* a city was starred while the write threw: it is a favorite in memory, and
\* nothing is stored
C16_Witness ==
    /\ lastOp.op = "toggleFavorite"
    /\ ~lastOp.writeOk
    /\ ~lastOp.had
    /\ selectedCity # Null
    /\ favorites # <<>>
    /\ favorites[1] = selectedCity
    /\ storage.favorites = Absent

\* C17: when the timer fires for a text that is empty or all white space, no
\* request is started and the suggestions are the empty list; when it fires
\* for any other text, exactly one suggestion request is started.
C17_BlankQueryStartsNoRequest ==
    [][lastOp'.op = "timer" =>
          IF \A i \in 1..Len(lastOp'.v) : lastOp'.v[i] \in WhiteSpace
          THEN /\ Started("suggest") \cup Started("weather") = {}
               /\ inflight' = inflight
               /\ suggestions' = <<>>
          ELSE /\ Cardinality(Started("suggest")) = 1
               /\ Started("weather") = {}]_vars

\* the timer of a text of two spaces has fired while the request for an
\* earlier text is in flight: that request is the only one
C17_Witness ==
    /\ lastOp.op = "timer"
    /\ lastOp.v = <<" ", " ">>
    /\ suggestions = <<>>
    /\ Cardinality(inflight) = 1
    /\ \A r \in inflight : r.name = <<" ", "a">> /\ ~r.aborted

\* the outcome of a weather fetch: its data without the failure message, or
\* no data with the failure message, and the loading flag cleared
WeatherOutcome ==
    /\ ~loading
    /\ \/ weather # Null /\ error # WEATHER_FAILED
       \/ weather = Null /\ error = WEATHER_FAILED

WeatherPending == Outstanding(inflight, "weather") # {}

\* C18 as claimed: after the last weather request the state reaches the
\* outcome of that request and stays in it, and the failure message is never
\* shown together with weather data.  A state in which no request and no
\* timeout is pending stays as it is for as long as the user does nothing,
\* so the outcome has to hold in it.
C18_SettledForGood ==
    /\ ~(error = WEATHER_FAILED /\ weather # Null)
    /\ (phase # "init" /\ weatherAbortRef # 0 /\ inflight = {} /\ timeouts = {})
          => WeatherOutcome

\* C18 as amended: the step in which the weather request started last
\* succeeds or fails leads to its outcome; the outcome stands until a weather
\* request is started, the user types or a search fails; once no weather
\* request is started any more, a pending one is bound to settle; and the
\* failure message is never shown together with weather data.
C18_OutcomeUntilNextOperation ==
    /\ [](~(error = WEATHER_FAILED /\ weather # Null))
    /\ [][/\ lastOp'.op = "weather" =>
               /\ lastOp'.id = weatherAbortRef
               /\ weather' # Null /\ error' # WEATHER_FAILED /\ ~loading'
          /\ (lastOp'.op = "failed" /\ lastOp'.kind = "weather") =>
               /\ lastOp'.id = weatherAbortRef
               /\ weather' = Null /\ error' = WEATHER_FAILED /\ ~loading'
          /\ (WeatherOutcome /\ ~WeatherPending) =>
               \/ WeatherOutcome'
               \/ Started("weather") # {}
               \/ lastOp'.op = "onQueryChange"
               \/ lastOp'.op = "failed" /\ lastOp'.kind = "suggest"]_vars
    /\ (<>[][Started("weather") = {}]_vars) => (WeatherPending ~> ~WeatherPending)

\* the weather request has failed: no data, the failure message, not loading
C18_Witness ==
    /\ lastOp.op = "failed"
    /\ lastOp.kind = "weather"
    /\ lastOp.id = weatherAbortRef
    /\ weather = Null
    /\ error = WEATHER_FAILED
    /\ ~loading
    /\ inflight = {}

\* C19: while a weather request is outstanding the weather loading flag is
\* true, and while a suggestion request is outstanding the suggestion
\* loading flag is true, also once a superseded request of the same kind has
\* been handled.
C19_LoadingReflectsOutstanding ==
    /\ Outstanding(inflight, "weather") # {} => loading
    /\ Outstanding(inflight, "suggest") # {} => loadingSuggest

\* C20: for a selected city absent from the favorites, two toggles in a row
\* (the first adds it, the second removes it) leave the favorites exactly as
\* they were before the first, in content and order, if and only if they had
\* fewer than FAV_CAP entries then.
C20_AddThenRemoveRestores ==
    [][(/\ lastOp.op = "toggleFavorite"
        /\ ~lastOp.had
        /\ selectedCity # Null
        /\ lastOp'.op = "toggleFavorite") =>
          (favorites' = lastOp.before <=> Len(lastOp.before) < FAV_CAP)]_vars

\* the restored city was starred over a full list and unstarred again: the
\* last entry of the list is lost
C20_Witness ==
    /\ lastOp.op = "toggleFavorite"
    /\ lastOp.had
    /\ Len(lastOp.before) = FAV_CAP
    /\ selectedCity = CityToJSON(CityA2)
    /\ lastOp.before[1] = selectedCity
    /\ favorites = Tail(lastOp.before)
    /\ favorites = Fill(FAV_CAP - 1)

====
